---- MODULE Spec2Model ----
(***************************************************************************)
(* Model of static/js/reviews-system.js (class ReviewSystem): the review   *)
(* form handler, the storage fallback chain, the deduplicator, the rate    *)
(* limiter and the read path.                                              *)
(*                                                                         *)
(* Strings are sequences of one-character strings.  A value stored in      *)
(* localStorage / sessionStorage is a record [kind, arr]: "null" (no item),*)
(* "json" (the JSON text of the array arr) and "garbage" (text JSON.parse   *)
(* rejects).  Timestamps are                                               *)
(* milliseconds (Date.now(), and the value new Date(iso).getTime() gives   *)
(* back for the ISO string written by toISOString()).                      *)
(*                                                                         *)
(* A handler runs atomically between two macrotask suspension points: the  *)
(* network fetch of saveToCloudStorage and the setTimeout of delay().      *)
(* Awaits of already settled promises only yield to the microtask queue,   *)
(* which no other event handler can interleave with.                       *)
(*                                                                         *)
(* Environment assumption: the serialized collection stays below the       *)
(* 5,000,000 character threshold of saveToLocalStorage (line 490), and the *)
(* page holds the DOM nodes the handlers look up.                          *)
(***************************************************************************)
EXTENDS Integers, Sequences, FiniteSets, TLC

VARIABLES
    clock,          \* Date.now()
    ticks,          \* number of times the model has advanced the clock
    ls_main,        \* localStorage[storageKey]
    ls_backup,      \* localStorage[storageKey + '_backup']
    ls_last,        \* localStorage[lastSubmissionKey]
    ss_main,        \* sessionStorage[storageKey]
    ss_temp,        \* sessionStorage[storageKey + '_temp']
    ss_fallback,    \* sessionStorage[storageKey + '_fallback']
    ss_sessionId,   \* sessionStorage['review_session_id'] is set
    ssDefined,      \* typeof sessionStorage !== 'undefined' (fixed per page)
    globalReviews,  \* window.medridatoursReviews
    memoryReviews,  \* window.memoryReviews
    fallbackReviews,\* window.fallbackReviews
    remote,         \* the JSON array held at firebaseUrl
    inv,            \* the handleSubmission invocations, by order of their submit event
    nEvents,        \* number of submit events delivered so far
    lastRead,       \* what the last stand-alone getStoredReviews() call saw and returned
    cand,           \* candidate handed to validateReview / isDuplicate on its own
    verdict,        \* what validateReview / isDuplicate answered for cand
    existingArg,    \* the existingReviews argument handed to isDuplicate on its own
    reviewsGrid,    \* the records rendered into #reviews-grid, in order
    dataStr         \* the document exportReviews last produced

vars == <<clock, ticks, ls_main, ls_backup, ls_last, ss_main, ss_temp, ss_fallback,
          ss_sessionId, ssDefined, globalReviews, memoryReviews, fallbackReviews,
          remote, inv, nEvents, lastRead, cand, verdict, existingArg, reviewsGrid,
          dataStr>>

----------------------------------------------------------------------------
(* Bounds of the model *)
MaxSubmissions == 2
MaxTicks == 1

(* Program constants *)
maxReviews == 100
maxDisplayReviews == 20
rateLimit == 60000
timeWindow == 24 * 60 * 60 * 1000
useCloudStorage == TRUE

----------------------------------------------------------------------------
(* Strings *)
UpperChars == <<"A","B","C","D","E","F","G","H","I","J","K","L","M",
                "N","O","P","Q","R","S","T","U","V","W","X","Y","Z">>
LowerChars == <<"a","b","c","d","e","f","g","h","i","j","k","l","m",
                "n","o","p","q","r","s","t","u","v","w","x","y","z">>

toLowerChar(c) ==
    IF \E i \in 1..26 : UpperChars[i] = c
    THEN LowerChars[CHOOSE i \in 1..26 : UpperChars[i] = c]
    ELSE c

toLowerCase(s) == [i \in 1..Len(s) |-> toLowerChar(s[i])]

IsSpace(c) == c \in {" ", "\t", "\n"}

RECURSIVE trimStart(_)
trimStart(s) ==
    IF s # <<>> /\ IsSpace(Head(s)) THEN trimStart(Tail(s)) ELSE s

RECURSIVE trimEnd(_)
trimEnd(s) ==
    IF s # <<>> /\ IsSpace(s[Len(s)]) THEN trimEnd(SubSeq(s, 1, Len(s) - 1)) ELSE s

trim(s) == trimEnd(trimStart(s))

(* str.replace(/\s+/g, ' ') *)
RECURSIVE collapseSpaces(_)
collapseSpaces(s) ==
    IF s = <<>> THEN <<>>
    ELSE IF IsSpace(Head(s))
         THEN <<" ">> \o collapseSpaces(trimStart(s))
         ELSE <<Head(s)>> \o collapseSpaces(Tail(s))

normalize(str) == trim(collapseSpaces(toLowerCase(str)))

substring(s, from, to) ==
    SubSeq(s, from + 1, IF to < Len(s) THEN to ELSE Len(s))

includes(s, sub) ==
    \E k \in 0..(Len(s) - Len(sub)) : SubSeq(s, k + 1, k + Len(sub)) = sub

(* sanitize: trim, then strip <script>...</script> blocks; the characters  *)
(* the model enters hold no '<', so the regular expression matches nothing *)
sanitize(input) == trim(input)

----------------------------------------------------------------------------
(* Stored values *)
Null == [kind |-> "null", arr |-> <<>>]
Garbage == [kind |-> "garbage", arr |-> <<>>]
JSONstringify(reviews) == [kind |-> "json", arr |-> reviews]

Undefined == [kind |-> "undefined", arr |-> <<>>]
ArrayValue(reviews) == [kind |-> "array", arr |-> reviews]

(* JSON.parse(stored) followed by the Array.isArray test; a missing item, *)
(* a parse error and a non-array all end in "no array"                     *)
ParsesToArray(stored) == stored.kind = "json"


----------------------------------------------------------------------------
(* Review records.  email, location, vehicle, userAgent and sessionId are  *)
(* carried along by the program and read by none of the modelled logic.    *)
NoReview == [id |-> 0, name |-> <<>>, content |-> <<>>, rating |-> 0, timestamp |-> 0]

(* Notifications handed to showMessage *)
MsgRateLimit == "Veuillez attendre avant de soumettre un autre avis."
MsgName == "Veuillez entrer votre nom."
MsgContent == "Veuillez ecrire un commentaire."
MsgTooShort == "Votre commentaire doit contenir au moins 10 caracteres."
MsgRating == "Veuillez selectionner une note en cliquant sur les etoiles."
MsgDuplicate == "Un avis similaire a deja ete soumis."
MsgSuccess == "Merci pour votre avis ! Il a ete publie avec succes."
MsgSaveFailed == "Impossible de sauvegarder l'avis."
MsgError == "Une erreur est survenue."

(* validateReview with the length rule off by one (<= 10 for < 10) *)
validateReviewLengthOffByOne(review) ==
    IF review.name = <<>> \/ trim(review.name) = <<>>
    THEN [ok |-> FALSE, msgs |-> <<MsgName>>]
    ELSE IF review.content = <<>> \/ trim(review.content) = <<>>
    THEN [ok |-> FALSE, msgs |-> <<MsgContent>>]
    ELSE IF Len(trim(review.content)) <= 10
    THEN [ok |-> FALSE, msgs |-> <<MsgTooShort>>]
    ELSE IF review.rating = 0 \/ review.rating < 1 \/ review.rating > 5
    THEN [ok |-> FALSE, msgs |-> <<MsgRating>>]
    ELSE [ok |-> TRUE, msgs |-> <<>>]

(* validateReview (lines 183-225): the answer and the showMessage calls it made *)
validateReview(review) ==
    IF review.name = <<>> \/ trim(review.name) = <<>>
    THEN [ok |-> FALSE, msgs |-> <<MsgName>>]
    ELSE IF review.content = <<>> \/ trim(review.content) = <<>>
    THEN [ok |-> FALSE, msgs |-> <<MsgContent>>]
    ELSE IF Len(trim(review.content)) < 10
    THEN [ok |-> FALSE, msgs |-> <<MsgTooShort>>]
    ELSE IF review.rating = 0 \/ review.rating < 1 \/ review.rating > 5
    THEN [ok |-> FALSE, msgs |-> <<MsgRating>>]
    ELSE [ok |-> TRUE, msgs |-> <<>>]

similarContent(content1, content2) ==
    LET normalized1 == normalize(content1)
        normalized2 == normalize(content2)
    IN  \/ normalized1 = normalized2
        \/ (Len(normalized1) > 20 /\ includes(normalized2, substring(normalized1, 0, 20)))
        \/ (Len(normalized2) > 20 /\ includes(normalized1, substring(normalized2, 0, 20)))

isDuplicate(newReview, existingReviews) ==
    LET now == newReview.timestamp
    IN  \E k \in 1..Len(existingReviews) :
            LET existing == existingReviews[k]
                timeDiff == now - existing.timestamp
            IN  /\ timeDiff < timeWindow
                /\ toLowerCase(existing.name) = toLowerCase(newReview.name)
                /\ similarContent(existing.content, newReview.content)

(* Array.prototype.sort with (a, b) => new Date(b.timestamp) - new Date(a.timestamp): *)
(* a stable sort, most recent first.  rank[k] is the place element k ends at; an      *)
(* array already in that order is left as it is.                                      *)
(* sort() leaving the array as it found it *)
sortLeavesOrder(s) == s

IsSortedDesc(s) ==
    \A k \in 1..(Len(s) - 1) : s[k].timestamp >= s[k + 1].timestamp

sortByTimestampDesc(s) ==
    IF IsSortedDesc(s) THEN s
    ELSE LET rank == [k \in 1..Len(s) |->
                        1 + Cardinality({j \in 1..Len(s) :
                                \/ s[j].timestamp > s[k].timestamp
                                \/ (s[j].timestamp = s[k].timestamp /\ j < k)})]
         IN  [p \in 1..Len(s) |-> s[CHOOSE k \in 1..Len(s) : rank[k] = p]]

slice(s, from, to) == SubSeq(s, from + 1, IF to < Len(s) THEN to ELSE Len(s))

----------------------------------------------------------------------------
(* The browser's storage as the environment answers for one run of a       *)
(* handler.  localStorage: "ok"; "quota": the probe item of                *)
(* isLocalStorageAvailable fits, a collection of more than one record      *)
(* raises QuotaExceededError; "full": the probe fits and every collection  *)
(* raises QuotaExceededError; "unavailable": every setItem throws.         *)
(* sessionStorage (when defined): "ok", or "throws" for every setItem.     *)
LsModes == {"ok", "quota", "full", "unavailable"}
SsModes == {"ok", "throws"}

isLocalStorageAvailable(ls) == ls # "unavailable"

localSetItemThrows(ls, reviews) ==
    \/ ls \in {"full", "unavailable"}
    \/ ls = "quota" /\ Len(reviews) > 1

(* The stores one handler run reads and writes *)
World ==
    [main |-> ls_main, backup |-> ls_backup, last |-> ls_last,
     smain |-> ss_main, stemp |-> ss_temp, sfallback |-> ss_fallback,
     sid |-> ss_sessionId, glob |-> globalReviews,
     memory |-> memoryReviews, fallback |-> fallbackReviews]

SetWorld(w) ==
    /\ ls_main' = w.main
    /\ ls_backup' = w.backup
    /\ ls_last' = w.last
    /\ ss_main' = w.smain
    /\ ss_temp' = w.stemp
    /\ ss_fallback' = w.sfallback
    /\ ss_sessionId' = w.sid
    /\ globalReviews' = w.glob
    /\ memoryReviews' = w.memory
    /\ fallbackReviews' = w.fallback

(* getLocalStoredReviews without its try/catch: what JSON.parse raises     *)
(* leaves the function                                                     *)
getLocalStoredReviewsUncaught(w, ls) ==
    [reviews |-> IF isLocalStorageAvailable(ls) /\ ParsesToArray(w.main)
                 THEN w.main.arr ELSE <<>>,
     threw |-> isLocalStorageAvailable(ls) /\ w.main.kind = "garbage"]

(* getLocalStoredReviews (lines 779-793).  threw: an exception left the   *)
(* function; its try/catch answers [] for whatever JSON.parse raises.      *)
getLocalStoredReviews(w, ls) ==
    [reviews |-> IF isLocalStorageAvailable(ls) /\ ParsesToArray(w.main)
                 THEN w.main.arr ELSE <<>>,
     threw |-> FALSE]

(* loadFromCloudStorage: the second definition (lines 394-458) is the one  *)
(* the class keeps; it reads the in-page variable and the browser stores   *)
(* and performs no network request.  src names the tier that answered.     *)
loadFromCloudStorage(w, ls) ==
    IF w.glob.kind = "array" THEN [reviews |-> w.glob.arr, src |-> "global"]
    ELSE IF isLocalStorageAvailable(ls) /\ ParsesToArray(w.main)
    THEN [reviews |-> w.main.arr, src |-> "main"]
    ELSE IF isLocalStorageAvailable(ls) /\ ParsesToArray(w.backup)
    THEN [reviews |-> w.backup.arr, src |-> "backup"]
    ELSE IF ssDefined /\ ParsesToArray(w.smain)
    THEN [reviews |-> w.smain.arr, src |-> "session"]
    ELSE [reviews |-> <<>>, src |-> "none"]

(* getStoredReviews (lines 753-774).  sort() works in place: when the      *)
(* array is window.medridatoursReviews itself, the variable is sorted too. *)
getStoredReviews(w, ls) ==
    LET cloud == IF useCloudStorage THEN loadFromCloudStorage(w, ls)
                 ELSE [reviews |-> <<>>, src |-> "none"]
    IN  IF Len(cloud.reviews) > 0
        THEN LET sorted == sortByTimestampDesc(cloud.reviews)
             IN  [w |-> IF cloud.src = "global"
                        THEN [w EXCEPT !.glob = ArrayValue(sorted)] ELSE w,
                  reviews |-> sorted, failed |-> FALSE]
        ELSE LET localReviews == getLocalStoredReviews(w, ls)
             IN  [w |-> w, reviews |-> sortByTimestampDesc(localReviews.reviews),
                  failed |-> localReviews.threw]

(* saveToMultipleStorages (lines 371-389); threw: localStorage.setItem     *)
(* raised before anything was written                                      *)
saveToMultipleStorages(w, reviews, ls, ss) ==
    IF isLocalStorageAvailable(ls) /\ localSetItemThrows(ls, reviews)
    THEN [w |-> w, threw |-> TRUE]
    ELSE LET reviewsJson == JSONstringify(reviews)
             w1 == IF isLocalStorageAvailable(ls)
                   THEN [w EXCEPT !.main = reviewsJson, !.backup = reviewsJson] ELSE w
             w2 == IF ssDefined /\ ss = "ok" THEN [w1 EXCEPT !.smain = reviewsJson] ELSE w1
         IN  [w |-> [w2 EXCEPT !.glob = ArrayValue(reviews)], threw |-> FALSE]

(* getTemporaryReviews (lines 835-849) *)
getTemporaryReviews(w) ==
    IF ssDefined /\ ParsesToArray(w.stemp) THEN w.stemp.arr ELSE <<>>

(* saveToTemporaryStorage (lines 542-561) *)
saveToTemporaryStorage(w, review, ss) ==
    IF ssDefined
    THEN IF ss = "throws"
         THEN [w |-> w, ok |-> FALSE, stage |-> "none"]
         ELSE [w |-> [w EXCEPT !.stemp = JSONstringify(<<review>> \o getTemporaryReviews(w))],
               ok |-> TRUE, stage |-> "session"]
    ELSE [w |-> [w EXCEPT !.memory =
                    ArrayValue(<<review>> \o (IF w.memory.kind = "array" THEN w.memory.arr ELSE <<>>))],
          ok |-> TRUE, stage |-> "memory"]

(* saveToFallbackStorage (lines 566-584) *)
saveToFallbackStorage(w, review, ss) ==
    IF ssDefined /\ ss = "ok"
    THEN [w |-> [w EXCEPT !.sfallback = JSONstringify(<<review>>)],
          ok |-> TRUE, stage |-> "session"]
    ELSE [w |-> [w EXCEPT !.fallback =
                    ArrayValue(<<review>> \o (IF w.fallback.kind = "array" THEN w.fallback.arr ELSE <<>>))],
          ok |-> TRUE, stage |-> "memory"]

(* clearOldReviews (lines 589-600): getStoredReviews() is async and hands  *)
(* back a promise, reviews.slice is no function, and the catch block       *)
(* removes the main item.  The getStoredReviews call it started still      *)
(* completes and sorts the in-page array it was given.                     *)
clearOldReviews(w, ls) ==
    [getStoredReviews(w, ls).w EXCEPT !.main = Null]


(* A pass of saveToLocalStorage whose loop runs once more than maxAttempts *)
saveToLocalStorageAttemptOneMore(w, review, ls, ss, attempt, maxAttempts) ==
    IF ~isLocalStorageAvailable(ls)
    THEN LET t == saveToTemporaryStorage(w, review, ss)
         IN  [w |-> t.w, status |-> IF t.ok THEN "true" ELSE "false",
              msgs |-> <<>>, stage |-> t.stage]
    ELSE
    LET reviews == getLocalStoredReviews(w, ls).reviews IN
    IF isDuplicate(review, reviews)
    THEN [w |-> w, status |-> "false", msgs |-> <<MsgDuplicate>>, stage |-> "duplicate"]
    ELSE
    LET unshifted == <<review>> \o reviews
        spliced == IF Len(unshifted) > maxReviews
                   THEN SubSeq(unshifted, 1, maxReviews) ELSE unshifted
    IN  IF ~localSetItemThrows(ls, spliced)
        THEN [w |-> [w EXCEPT !.main = JSONstringify(spliced)],
              status |-> "true", msgs |-> <<>>, stage |-> "local"]
        ELSE
        LET cleared == clearOldReviews(w, ls) IN
        IF ~localSetItemThrows(ls, <<review>>)
        THEN [w |-> [cleared EXCEPT !.main = JSONstringify(<<review>>)],
              status |-> "true", msgs |-> <<>>, stage |-> "quota"]
        ELSE IF attempt = maxAttempts + 1
        THEN LET f == saveToFallbackStorage(cleared, review, ss)
             IN  [w |-> f.w, status |-> "true", msgs |-> <<>>, stage |-> f.stage]
        ELSE [w |-> cleared, status |-> "delay", msgs |-> <<>>, stage |-> "none"]

(* One pass of the loop of saveToLocalStorage (lines 463-523).  status:    *)
(* "true" / "false" is what the function returns from this pass, "delay"   *)
(* means the pass raised and the loop waits in delay() before the next.    *)
saveToLocalStorageAttempt(w, review, ls, ss, attempt, maxAttempts) ==
    IF ~isLocalStorageAvailable(ls)
    THEN LET t == saveToTemporaryStorage(w, review, ss)
         IN  [w |-> t.w, status |-> IF t.ok THEN "true" ELSE "false",
              msgs |-> <<>>, stage |-> t.stage]
    ELSE
    LET reviews == getLocalStoredReviews(w, ls).reviews IN
    IF isDuplicate(review, reviews)
    THEN [w |-> w, status |-> "false", msgs |-> <<MsgDuplicate>>, stage |-> "duplicate"]
    ELSE
    LET unshifted == <<review>> \o reviews
        spliced == IF Len(unshifted) > maxReviews
                   THEN SubSeq(unshifted, 1, maxReviews) ELSE unshifted
    IN  IF ~localSetItemThrows(ls, spliced)
        THEN [w |-> [w EXCEPT !.main = JSONstringify(spliced)],
              status |-> "true", msgs |-> <<>>, stage |-> "local"]
        ELSE
        LET cleared == clearOldReviews(w, ls) IN
        IF ~localSetItemThrows(ls, <<review>>)
        THEN [w |-> [cleared EXCEPT !.main = JSONstringify(<<review>>)],
              status |-> "true", msgs |-> <<>>, stage |-> "quota"]
        ELSE IF attempt = maxAttempts
        THEN LET f == saveToFallbackStorage(cleared, review, ss)
             IN  [w |-> f.w, status |-> "true", msgs |-> <<>>, stage |-> f.stage]
        ELSE [w |-> cleared, status |-> "delay", msgs |-> <<>>, stage |-> "none"]

(* displayReviews rendering every record it was given *)
displayReviewsUncapped(w, ls) ==
    LET got == getStoredReviews(w, ls)
    IN  [w |-> got.w, reviews |-> got.reviews, grid |-> got.reviews]

(* displayReviews (lines 636-690): the records getStoredReviews returned    *)
(* and the ones rendered into the grid; every stored record is an object,  *)
(* so the filter of line 677 keeps them all                                *)
displayReviews(w, ls) ==
    LET got == getStoredReviews(w, ls)
    IN  [w |-> got.w, reviews |-> got.reviews,
         grid |-> slice(got.reviews, 0, maxDisplayReviews)]

(* exportReviews (lines 1038-1049).  getStoredReviews is async and is not  *)
(* awaited: reviews is a Promise, an object without enumerable properties, *)
(* and JSON.stringify gives the text of the empty object for it.  The call *)
(* it started still runs and sorts the in-page array.  got: what that call *)
(* resolves to.                                                            *)
EmptyObjectText == [kind |-> "object", arr |-> <<>>]

exportReviews(w, ls) ==
    LET got == getStoredReviews(w, ls)
    IN  [w |-> got.w, got |-> got.reviews, dataStr |-> EmptyObjectText]

(* checkRateLimit (lines 854-860) *)
checkRateLimit(w, now) ==
    IF ~w.last.set THEN TRUE ELSE now - w.last.val >= rateLimit

(* The tail of handleSubmission with updateLastSubmissionTime called      *)
(* whatever saveReviewWithRetry answered                                   *)
finishSubmissionStampsAlways(w, success, ls, now) ==
    LET stamped == IF ls = "unavailable" THEN w
                   ELSE [w EXCEPT !.last = [set |-> TRUE, val |-> now]]
    IN  IF success
        THEN LET shown == displayReviews(stamped, ls)
             IN  [w |-> shown.w,
                  msgs |-> IF ls = "unavailable" THEN <<MsgSuccess, MsgError>> ELSE <<MsgSuccess>>,
                  readBack |-> shown.reviews, outcome |-> "saved"]
        ELSE [w |-> stamped, msgs |-> <<MsgSaveFailed>>, readBack |-> <<>>, outcome |-> "failed"]

(* The tail of handleSubmission once saveReviewWithRetry has answered      *)
(* (lines 119-157): displayReviews, the notification, and                  *)
(* updateLastSubmissionTime, whose setItem raises when localStorage takes  *)
(* no writes; the catch block then shows the generic error.                *)
finishSubmission(w, success, ls, now) ==
    IF success
    THEN LET shown == displayReviews(w, ls)
         IN  IF ls = "unavailable"
             THEN [w |-> shown.w, msgs |-> <<MsgSuccess, MsgError>>,
                   readBack |-> shown.reviews, outcome |-> "saved"]
             ELSE [w |-> [shown.w EXCEPT !.last = [set |-> TRUE, val |-> now]],
                   msgs |-> <<MsgSuccess>>,
                   readBack |-> shown.reviews, outcome |-> "saved"]
    ELSE [w |-> w, msgs |-> <<MsgSaveFailed>>, readBack |-> <<>>, outcome |-> "failed"]

----------------------------------------------------------------------------
(* Invocations of handleSubmission *)
Events == 1..MaxSubmissions

NotStarted ==
    [pc |-> "none", review |-> NoReview, limited |-> <<>>, attempt |-> 0,
     result |-> "none", outcome |-> "none", stage |-> "none", msgs |-> <<>>,
     readBack |-> <<>>, arrived |-> 0, prior |-> {}]

(* The invocation has run to its end with this outcome *)
Ended(r, outcome, msgs) ==
    [r EXCEPT !.pc = "done", !.outcome = outcome, !.msgs = r.msgs \o msgs]

(* handleSubmission returns before it calls saveReviewWithRetry, and      *)
(* writes the last-submission time on its way out                          *)
rejectedStampsTime(w, r, outcome, msgs) ==
    [w |-> [w EXCEPT !.last = [set |-> TRUE, val |-> clock]], r |-> Ended(r, outcome, msgs)]

(* handleSubmission returns before it calls saveReviewWithRetry: the rate  *)
(* limiter (lines 95-99) or validateReview (lines 107-110) turned the      *)
(* submission down; the stores stay as they are                            *)
rejected(w, r, outcome, msgs) ==
    [w |-> w, r |-> Ended(r, outcome, msgs)]

(* saveReviewWithRetry answered; handleSubmission runs to its end *)
Answered(r, w, success, stage, msgs, ls) ==
    LET fin == finishSubmission(w, success, ls, clock)
    IN  [w |-> fin.w,
         r |-> [r EXCEPT !.pc = "done",
                         !.result = IF success THEN "true" ELSE "false",
                         !.stage = stage,
                         !.outcome = fin.outcome,
                         !.msgs = r.msgs \o msgs \o fin.msgs,
                         !.readBack = fin.readBack]]

(* The grid after a step of invocation r: displayReviews ran (line 123)    *)
(* when the invocation ended saved                                         *)
GridAfter(r) ==
    IF r.outcome = "saved" THEN slice(r.readBack, 0, maxDisplayReviews) ELSE reviewsGrid

(* A pass of saveToLocalStorage made as the fallback stage of              *)
(* saveReviewWithRetry (lines 246-257), and what follows from its answer   *)
LocalStage(r, w, ls, ss, attempt) ==
    LET pass == saveToLocalStorageAttempt(w, r.review, ls, ss, attempt, 3)
    IN  IF pass.status = "delay"
        THEN [w |-> pass.w,
              r |-> [r EXCEPT !.pc = "delay", !.attempt = attempt + 1,
                              !.msgs = r.msgs \o pass.msgs]]
        ELSE Answered(r, pass.w, pass.status = "true", pass.stage, pass.msgs, ls)

(* saveToCloudStorage answered true (lines 234-240): the local copy is     *)
(* written with a single attempt and its answer is dropped                 *)
CloudSucceeded(r, w, ls, ss) ==
    LET pass == saveToLocalStorageAttempt(w, r.review, ls, ss, 1, 1)
    IN  Answered(r, pass.w, TRUE, "cloud", pass.msgs, ls)


----------------------------------------------------------------------------
(* What the form is filled with *)
NameAna == <<"A","n","a">>
NameAnaLower == <<"a","n","a">>
NameBob == <<"B","o","b">>
NameEve == <<"E","v","e">>
ContentGreat == <<"G","r","e","a","t"," ","s","e","r","v","i","c","e">>
ContentOther == <<"O","t","h","e","r"," ","w","o","r","d","s">>
ContentShort == <<"T","o","o"," ","s","h","o","r","t">>

FormInputs ==
    { [name |-> NameAna, content |-> ContentGreat, rating |-> 5],
      [name |-> NameAnaLower, content |-> ContentGreat, rating |-> 5],
      [name |-> NameBob, content |-> ContentGreat, rating |-> 5],
      [name |-> NameAna, content |-> ContentShort, rating |-> 5] }

TickSteps == {rateLimit, timeWindow}

(* Records left in the browser by earlier page loads: each under a name of *)
(* its own, a millisecond apart, the most recent a day before the page was *)
(* opened                                                                  *)
EarlierName(k) == <<"O", LowerChars[(k \div 26) + 1], LowerChars[(k % 26) + 1]>>

StoredEarlier(n) ==
    [k \in 1..n |-> [id |-> -k, name |-> EarlierName(k), content |-> ContentGreat,
                     rating |-> 5, timestamp |-> -(timeWindow + k)]]

(* A record another device puts into the remote collection *)
ForeignReview(now) ==
    [id |-> -1000, name |-> NameEve, content |-> ContentOther, rating |-> 3, timestamp |-> now]

NoRead ==
    [done |-> FALSE, mainKind |-> "null", othersEmpty |-> TRUE, remote |-> <<>>,
     reviews |-> <<>>, failed |-> FALSE]

NoVerdict == [done |-> FALSE, ok |-> FALSE, msgs |-> <<>>]

(* The page as the constructor leaves it: earlier holds what earlier page  *)
(* loads left under the main and the backup key and at the remote endpoint *)
PageLoaded(earlier, defined) ==
    /\ clock = 0
    /\ ticks = 0
    /\ ls_main = IF earlier = <<>> THEN Null ELSE JSONstringify(earlier)
    /\ ls_backup = ls_main
    /\ remote = earlier
    /\ ls_last = [set |-> FALSE, val |-> 0]
    /\ ss_main = Null
    /\ ss_temp = Null
    /\ ss_fallback = Null
    /\ ss_sessionId = FALSE
    /\ ssDefined = defined
    /\ globalReviews = Undefined
    /\ memoryReviews = Undefined
    /\ fallbackReviews = Undefined
    /\ inv = [i \in Events |-> NotStarted]
    /\ nEvents = 0
    /\ lastRead = NoRead
    /\ reviewsGrid = slice(sortByTimestampDesc(earlier), 0, maxDisplayReviews)
    /\ dataStr = Null

Init ==
    /\ \E defined \in BOOLEAN : PageLoaded(<<>>, defined)
    /\ cand = NoReview
    /\ verdict = NoVerdict
    /\ existingArg = <<>>

(* A submit event: handleSubmission up to its first suspension (lines      *)
(* 90-117, 230-234, 263-281)                                               *)
Submit(form, ls, ss) ==
    /\ nEvents < MaxSubmissions
    /\ LET i == nEvents + 1
           w == World
           r0 == [NotStarted EXCEPT !.arrived = clock,
                                    !.prior = {j \in 1..nEvents : inv[j].pc = "done"}]
           review == [id |-> i,
                      name |-> sanitize(form.name),
                      content |-> sanitize(form.content),
                      rating |-> form.rating,
                      timestamp |-> clock]
           r1 == [r0 EXCEPT !.review = review]
           w1 == [w EXCEPT !.sid = TRUE]
           step ==
             IF ~checkRateLimit(w, clock)
             THEN rejected(w, r0, "ratelimited", <<MsgRateLimit>>)
             ELSE IF ~ssDefined \/ (~w.sid /\ ss = "throws")
             THEN \* getSessionId raises inside extractFormData, outside any try
                  [w |-> w, r |-> Ended(r0, "crashed", <<>>)]
             ELSE IF ~validateReview(review).ok
             THEN rejected(w1, r1, "invalid", validateReview(review).msgs)
             ELSE IF useCloudStorage
             THEN LET existingReviews == loadFromCloudStorage(w1, ls).reviews
                      updatedReviews == <<review>> \o existingReviews
                      limitedReviews == slice(updatedReviews, 0, maxReviews)
                  IN  [w |-> w1, r |-> [r1 EXCEPT !.pc = "fetch", !.limited = limitedReviews]]
             ELSE LocalStage(r1, w1, ls, ss, 1)
       IN  /\ inv' = [inv EXCEPT ![i] = step.r]
           /\ SetWorld(step.w)
           /\ reviewsGrid' = GridAfter(step.r)
    /\ nEvents' = nEvents + 1
    /\ UNCHANGED <<clock, ticks, ssDefined, remote, lastRead, cand, verdict,
                   existingArg, dataStr>>

(* The PUT of saveToCloudStorage settles (lines 283-300) and the handler   *)
(* runs on.  net: "ok" (response.ok), "fail" (another status), "throw"     *)
(* (fetch rejected).                                                       *)
FetchReturn(i, net, ls, ss) ==
    /\ inv[i].pc = "fetch"
    /\ LET r == inv[i]
           w == World
           first == IF net = "throw" THEN [w |-> w, threw |-> TRUE]
                    ELSE saveToMultipleStorages(w, r.limited, ls, ss)
           existingLocal == getLocalStoredReviews(w, ls).reviews
           second == saveToMultipleStorages(w, <<r.review>> \o existingLocal, ls, ss)
           step == IF ~first.threw THEN CloudSucceeded(r, first.w, ls, ss)
                   ELSE IF ~second.threw THEN CloudSucceeded(r, second.w, ls, ss)
                   ELSE LocalStage(r, w, ls, ss, 1)
       IN  /\ inv' = [inv EXCEPT ![i] = step.r]
           /\ SetWorld(step.w)
           /\ reviewsGrid' = GridAfter(step.r)
    /\ remote' = IF net = "ok" THEN inv[i].limited ELSE remote
    /\ UNCHANGED <<clock, ticks, ssDefined, nEvents, lastRead, cand, verdict,
                   existingArg, dataStr>>

(* The timer of delay() fires and the loop of saveToLocalStorage makes its *)
(* next pass (lines 517-519, 464)                                          *)
DelayReturn(i, ls, ss) ==
    /\ inv[i].pc = "delay"
    /\ LET step == LocalStage(inv[i], World, ls, ss, inv[i].attempt)
       IN  /\ inv' = [inv EXCEPT ![i] = step.r]
           /\ SetWorld(step.w)
           /\ reviewsGrid' = GridAfter(step.r)
    /\ UNCHANGED <<clock, ticks, ssDefined, remote, nEvents, lastRead, cand, verdict,
                   existingArg, dataStr>>

(* Time passes *)
Tick(d) ==
    /\ ticks < MaxTicks
    /\ ticks' = ticks + 1
    /\ clock' = clock + d
    /\ UNCHANGED <<ls_main, ls_backup, ls_last, ss_main, ss_temp, ss_fallback,
                   ss_sessionId, ssDefined, globalReviews, memoryReviews,
                   fallbackReviews, remote, inv, nEvents, lastRead, cand, verdict,
                   existingArg, reviewsGrid, dataStr>>

(* syncStorages (lines 61-75), run by the 30 s interval timer *)
syncStorages(w, ls) ==
    IF w.glob.kind = "array" /\ isLocalStorageAvailable(ls)
    THEN LET globalData == JSONstringify(w.glob.arr)
         IN  IF globalData # w.main /\ ~localSetItemThrows(ls, w.glob.arr)
             THEN [w EXCEPT !.main = globalData] ELSE w
    ELSE w

SyncStorages(ls) ==
    /\ SetWorld(syncStorages(World, ls))
    /\ UNCHANGED <<clock, ticks, ssDefined, remote, inv, nEvents, lastRead, cand, verdict,
                   existingArg, reviewsGrid, dataStr>>

(* A stand-alone call of getStoredReviews *)
ReadAll(ls) ==
    /\ LET w == World
           got == getStoredReviews(w, ls)
       IN  /\ SetWorld(got.w)
           /\ lastRead' =
                [done |-> TRUE,
                 mainKind |-> w.main.kind,
                 othersEmpty |-> /\ w.glob.arr = <<>>
                                 /\ w.backup.arr = <<>>
                                 /\ w.smain.arr = <<>>,
                 remote |-> remote,
                 reviews |-> got.reviews,
                 failed |-> got.failed]
    /\ UNCHANGED <<clock, ticks, ssDefined, remote, inv, nEvents, cand, verdict,
                   existingArg, reviewsGrid, dataStr>>

(* The item under the main key is replaced by text that is no JSON *)
CorruptMain ==
    /\ ls_main' = Garbage
    /\ UNCHANGED <<clock, ticks, ls_backup, ls_last, ss_main, ss_temp, ss_fallback,
                   ss_sessionId, ssDefined, globalReviews, memoryReviews,
                   fallbackReviews, remote, inv, nEvents, lastRead, cand, verdict,
                   existingArg, reviewsGrid, dataStr>>

(* Another device replaces the remote collection by its record followed by *)
(* the collection it read                                                  *)
RemotePutByOtherDevice ==
    /\ \A k \in 1..Len(remote) : remote[k].id # ForeignReview(clock).id
    /\ remote' = slice(<<ForeignReview(clock)>> \o remote, 0, maxReviews)
    /\ UNCHANGED <<clock, ticks, ls_main, ls_backup, ls_last, ss_main, ss_temp, ss_fallback,
                   ss_sessionId, ssDefined, globalReviews, memoryReviews,
                   fallbackReviews, inv, nEvents, lastRead, cand, verdict,
                   existingArg, reviewsGrid, dataStr>>

Next ==
    \/ \E form \in FormInputs, ls \in LsModes, ss \in SsModes : Submit(form, ls, ss)
    \/ \E i \in Events, net \in {"ok", "fail", "throw"}, ls \in LsModes, ss \in SsModes :
          FetchReturn(i, net, ls, ss)
    \/ \E i \in Events, ls \in LsModes, ss \in SsModes : DelayReturn(i, ls, ss)
    \/ \E d \in TickSteps : Tick(d)
    \/ \E ls \in LsModes : SyncStorages(ls)

Spec == Init /\ [][Next]_vars


----------------------------------------------------------------------------
(* The page opened on a browser whose main key already holds maxReviews    *)
(* records                                                                 *)
InitCapacity ==
    /\ PageLoaded(StoredEarlier(maxReviews), TRUE)
    /\ cand = NoReview
    /\ verdict = NoVerdict
    /\ existingArg = <<>>

CapacityForms == { [name |-> NameBob, content |-> ContentGreat, rating |-> 5] }

NextCapacity ==
    \/ \E form \in CapacityForms, ls \in LsModes, ss \in SsModes : Submit(form, ls, ss)
    \/ \E i \in Events, net \in {"ok", "fail", "throw"}, ls \in LsModes, ss \in SsModes :
          FetchReturn(i, net, ls, ss)
    \/ \E i \in Events, ls \in LsModes, ss \in SsModes : DelayReturn(i, ls, ss)
    \/ \E ls \in LsModes : SyncStorages(ls)

SpecCapacity == InitCapacity /\ [][NextCapacity]_vars

----------------------------------------------------------------------------
(* Reads: the stores hold what earlier persists, other tabs and other      *)
(* devices left, and getStoredReviews is called                            *)
ReviewA == [id |-> 1, name |-> NameAna, content |-> ContentGreat, rating |-> 5, timestamp |-> 0]
ReviewB == [id |-> 2, name |-> NameBob, content |-> ContentGreat, rating |-> 4, timestamp |-> rateLimit]

ReadCollections == { <<>>, <<ReviewA>>, <<ReviewB, ReviewA>>, <<ReviewA, ReviewB>> }

InitRead ==
    /\ clock = rateLimit
    /\ ticks = 0
    /\ ls_main \in {Null} \cup {JSONstringify(c) : c \in ReadCollections}
    /\ ls_backup \in {Null, ls_main, JSONstringify(<<ReviewA>>)}
    /\ remote \in ReadCollections
    /\ ls_last = [set |-> FALSE, val |-> 0]
    /\ ss_main \in {Null, JSONstringify(<<ReviewA>>), JSONstringify(<<ReviewA, ReviewB>>)}
    /\ ss_temp = Null
    /\ ss_fallback = Null
    /\ ss_sessionId = FALSE
    /\ ssDefined \in BOOLEAN
    /\ globalReviews \in {Undefined} \cup {ArrayValue(c) : c \in ReadCollections}
    /\ memoryReviews = Undefined
    /\ fallbackReviews = Undefined
    /\ inv = [i \in Events |-> NotStarted]
    /\ nEvents = 0
    /\ lastRead = NoRead
    /\ cand = NoReview
    /\ verdict = NoVerdict
    /\ existingArg = <<>>
    /\ reviewsGrid = <<>>
    /\ dataStr = Null

NextRead ==
    \/ \E ls \in LsModes : ReadAll(ls)
    \/ CorruptMain
    \/ RemotePutByOtherDevice

SpecRead == InitRead /\ [][NextRead]_vars

----------------------------------------------------------------------------
(* validateReview on its own *)
Content10 == <<"G","o","o","d"," ","t","r","i","p","s">>
ContentPadded == <<" "," ","T","o","o"," ","s","h","o","r","t"," "," ">>

Candidates ==
    [id : {1},
     name : {<<>>, <<" ", " ">>, NameAna, <<" ", "A", " ">>},
     content : {<<>>, <<" ", "\t", " ">>, ContentShort, Content10, ContentPadded, ContentGreat},
     rating : -1..6,
     timestamp : {0}]

InitValidate ==
    /\ PageLoaded(<<>>, TRUE)
    /\ cand \in Candidates
    /\ verdict = NoVerdict
    /\ existingArg = <<>>

Validate ==
    /\ ~verdict.done
    /\ verdict' = [done |-> TRUE, ok |-> validateReview(cand).ok,
                   msgs |-> validateReview(cand).msgs]
    /\ UNCHANGED <<clock, ticks, ls_main, ls_backup, ls_last, ss_main, ss_temp,
                   ss_fallback, ss_sessionId, ssDefined, globalReviews, memoryReviews,
                   fallbackReviews, remote, inv, nEvents, lastRead, cand,
                   existingArg, reviewsGrid, dataStr>>

SpecValidate == InitValidate /\ [][Validate]_vars


----------------------------------------------------------------------------
(* isDuplicate on its own: a candidate stamped one window after time 0 is  *)
(* compared with up to MaxExisting records stamped around it               *)
MaxExisting == 2

ContentGreatSpaced == <<" ","g","r","e","a","t"," "," ","S","E","R","V","I","C","E","\n">>
ContentLong ==
    <<"G","r","e","a","t"," ","s","e","r","v","i","c","e"," ","a","n","d"," ","a"," ",
      "c","l","e","a","n"," ","c","a","r">>
ContentLongOther ==
    <<"g","r","e","a","t"," ","S","e","r","v","i","c","e"," "," ","a","n","d"," ","a"," ",
      "f","a","i","r"," ","p","r","i","c","e">>

ExistingTimestamps ==
    {0, 1, timeWindow, 2 * timeWindow - 1, 2 * timeWindow, 2 * timeWindow + 1}

ExistingRecords ==
    [id : {2},
     name : {NameAna, NameAnaLower, NameBob},
     content : {ContentGreat, ContentGreatSpaced, ContentLong, ContentLongOther, ContentOther},
     rating : {5},
     timestamp : ExistingTimestamps]

DuplicateCandidates ==
    [id : {1},
     name : {NameAna},
     content : {ContentGreat, ContentLong},
     rating : {5},
     timestamp : {timeWindow}]

InitDuplicate ==
    /\ PageLoaded(<<>>, TRUE)
    /\ cand \in DuplicateCandidates
    /\ verdict = NoVerdict
    /\ \E n \in 0..MaxExisting : existingArg \in [1..n -> ExistingRecords]

CheckDuplicate ==
    /\ ~verdict.done
    /\ verdict' = [done |-> TRUE, ok |-> isDuplicate(cand, existingArg), msgs |-> <<>>]
    /\ UNCHANGED <<clock, ticks, ls_main, ls_backup, ls_last, ss_main, ss_temp,
                   ss_fallback, ss_sessionId, ssDefined, globalReviews, memoryReviews,
                   fallbackReviews, remote, inv, nEvents, lastRead, cand,
                   existingArg, reviewsGrid, dataStr>>

SpecDuplicate == InitDuplicate /\ [][CheckDuplicate]_vars

----------------------------------------------------------------------------
(* The grid: another tab writes a collection under the main key, the       *)
(* storage event reaches this page and its listener runs displayReviews    *)
(* (lines 45-50)                                                           *)
MaxStored == 25

Reverse(s) == [k \in 1..Len(s) |-> s[Len(s) + 1 - k]]

DisplayCollections ==
    {StoredEarlier(n) : n \in 0..MaxStored} \cup {Reverse(StoredEarlier(n)) : n \in 0..MaxStored}

InitDisplay ==
    /\ \E defined \in BOOLEAN : PageLoaded(<<>>, defined)
    /\ cand = NoReview
    /\ verdict = NoVerdict
    /\ existingArg = <<>>

StorageEvent(reviews, ls) ==
    /\ LET w == [World EXCEPT !.main = JSONstringify(reviews)]
           shown == displayReviews(w, ls)
       IN  /\ SetWorld(shown.w)
           /\ reviewsGrid' = shown.grid
           /\ lastRead' = [done |-> TRUE,
                           mainKind |-> w.main.kind,
                           othersEmpty |-> /\ w.glob.arr = <<>>
                                           /\ w.backup.arr = <<>>
                                           /\ w.smain.arr = <<>>,
                           remote |-> remote,
                           reviews |-> shown.reviews,
                           failed |-> FALSE]
    /\ UNCHANGED <<clock, ticks, ssDefined, remote, inv, nEvents, cand, verdict,
                   existingArg, dataStr>>

NextDisplay ==
    \E reviews \in DisplayCollections, ls \in LsModes : StorageEvent(reviews, ls)

SpecDisplay == InitDisplay /\ [][NextDisplay]_vars

----------------------------------------------------------------------------
(* Export: exportReviews is called from the console on stores as the read  *)
(* specification starts them                                               *)
ExportReviews(ls) ==
    /\ LET w == World
           out == exportReviews(w, ls)
       IN  /\ SetWorld(out.w)
           /\ dataStr' = out.dataStr
           /\ lastRead' = [done |-> TRUE,
                           mainKind |-> w.main.kind,
                           othersEmpty |-> /\ w.glob.arr = <<>>
                                           /\ w.backup.arr = <<>>
                                           /\ w.smain.arr = <<>>,
                           remote |-> remote,
                           reviews |-> out.got,
                           failed |-> FALSE]
    /\ UNCHANGED <<clock, ticks, ssDefined, remote, inv, nEvents, cand, verdict,
                   existingArg, reviewsGrid>>

NextExport ==
    \/ \E ls \in LsModes : ExportReviews(ls)
    \/ CorruptMain

SpecExport == InitRead /\ [][NextExport]_vars

----------------------------------------------------------------------------
(* Two devices: another device persists to the remote endpoint while no    *)
(* submission of this page is under way, so the persists do not overlap    *)
OtherDevicePersist ==
    /\ \A i \in Events : inv[i].pc \in {"none", "done"}
    /\ RemotePutByOtherDevice

NextRemote ==
    \/ \E form \in FormInputs, ls \in LsModes, ss \in SsModes : Submit(form, ls, ss)
    \/ \E i \in Events, net \in {"ok", "fail", "throw"}, ls \in LsModes, ss \in SsModes :
          FetchReturn(i, net, ls, ss)
    \/ \E i \in Events, ls \in LsModes, ss \in SsModes : DelayReturn(i, ls, ss)
    \/ OtherDevicePersist

SpecRemote == Init /\ [][NextRemote]_vars

----------------------------------------------------------------------------
(* The retry loop of saveToLocalStorage, one call at a time: a single      *)
(* submission on a page that already holds up to MaxExisting records, with *)
(* or without sessionStorage.  The loop starts once the fetch has settled, *)
(* and its only suspension is delay(), whose setTimeout always fires: that *)
(* is the fairness the loop runs under                                     *)
InitRetry ==
    /\ \E n \in 0..MaxExisting, defined \in BOOLEAN : PageLoaded(StoredEarlier(n), defined)
    /\ cand = NoReview
    /\ verdict = NoVerdict
    /\ existingArg = <<>>

(* The first submit event of the page *)
FirstSubmit(form, ls, ss) ==
    /\ nEvents = 0
    /\ Submit(form, ls, ss)

NextRetry ==
    \/ \E form \in CapacityForms, ls \in LsModes, ss \in SsModes : FirstSubmit(form, ls, ss)
    \/ \E i \in Events, net \in {"ok", "fail", "throw"}, ls \in LsModes, ss \in SsModes :
          FetchReturn(i, net, ls, ss)
    \/ \E i \in Events, ls \in LsModes, ss \in SsModes : DelayReturn(i, ls, ss)

SpecRetry ==
    /\ InitRetry /\ [][NextRetry]_vars
    /\ \A i \in Events :
          WF_vars(\E ls \in LsModes, ss \in SsModes : DelayReturn(i, ls, ss))

----------------------------------------------------------------------------
(* Two tabs of the page on one browser: localStorage is shared, the        *)
(* sessionStorage and the window variables are this tab's own.  The other  *)
(* tab stores a record of its own in front of what the main key holds; the *)
(* storage listener of this tab (lines 45-50) then runs displayReviews,    *)
(* and the interval timer (lines 53-55) runs syncStorages                  *)
(* The record is one of those the stored value holds *)
InTier(review, value) == \E k \in 1..Len(value.arr) : value.arr[k] = review

MainCollection == IF ParsesToArray(ls_main) THEN ls_main.arr ELSE <<>>

OtherTabWrites(ls) ==
    /\ ~InTier(ForeignReview(clock), ls_main)
    /\ StorageEvent(<<ForeignReview(clock)>> \o MainCollection, ls)

NextCrossTab ==
    \/ \E form \in CapacityForms, ls \in LsModes, ss \in SsModes : Submit(form, ls, ss)
    \/ \E i \in Events, net \in {"ok", "fail", "throw"}, ls \in LsModes, ss \in SsModes :
          FetchReturn(i, net, ls, ss)
    \/ \E i \in Events, ls \in LsModes, ss \in SsModes : DelayReturn(i, ls, ss)
    \/ \E ls \in LsModes : OtherTabWrites(ls)
    \/ \E ls \in LsModes : SyncStorages(ls)

SpecCrossTab == Init /\ [][NextCrossTab]_vars

----------------------------------------------------------------------------
(* clearAllReviews (lines 1031-1036), called from the console: the two     *)
(* removeItem calls, then displayReviews, which runs up to its end before  *)
(* any other handler.  shown: what its getStoredReviews returned.          *)
clearAllReviews(w, ls) ==
    LET w1 == [w EXCEPT !.main = Null, !.last = [set |-> FALSE, val |-> 0]]
        shown == displayReviews(w1, ls)
    IN  [w |-> shown.w, shown |-> shown.reviews, grid |-> shown.grid]

(* The console call is made on a page with no submission under way *)
ClearAllReviews(ls) ==
    /\ \A i \in Events : inv[i].pc \in {"none", "done"}
    /\ LET w == World
           out == clearAllReviews(w, ls)
       IN  /\ SetWorld(out.w)
           /\ reviewsGrid' = out.grid
           /\ lastRead' = [done |-> TRUE,
                           mainKind |-> w.main.kind,
                           othersEmpty |-> /\ w.glob.arr = <<>>
                                           /\ w.backup.arr = <<>>
                                           /\ w.smain.arr = <<>>,
                           remote |-> remote,
                           reviews |-> out.shown,
                           failed |-> FALSE]
    /\ UNCHANGED <<clock, ticks, ssDefined, remote, inv, nEvents, cand, verdict,
                   existingArg, dataStr>>

(* Reviews are submitted, the collection is cleared from the console, and  *)
(* the page is left to its interval timer                                  *)
SubmitBeforeClear(form, ls, ss) ==
    /\ ~lastRead.done
    /\ Submit(form, ls, ss)

NextClear ==
    \/ \E form \in CapacityForms, ls \in LsModes, ss \in SsModes :
          SubmitBeforeClear(form, ls, ss)
    \/ \E i \in Events, net \in {"ok", "fail", "throw"}, ls \in LsModes, ss \in SsModes :
          FetchReturn(i, net, ls, ss)
    \/ \E i \in Events, ls \in LsModes, ss \in SsModes : DelayReturn(i, ls, ss)
    \/ \E ls \in LsModes : ClearAllReviews(ls)
    \/ \E ls \in LsModes : SyncStorages(ls)

SpecClear == Init /\ [][NextClear]_vars

----------------------------------------------------------------------------
(* The gates of handleSubmission: every form, valid or not, submitted up   *)
(* to MaxSubmissions times, within the minute of the rate limiter or after *)
(* it                                                                      *)
NextGate ==
    \/ \E form \in FormInputs, ls \in LsModes, ss \in SsModes : Submit(form, ls, ss)
    \/ \E i \in Events, net \in {"ok", "fail", "throw"}, ls \in LsModes, ss \in SsModes :
          FetchReturn(i, net, ls, ss)
    \/ \E i \in Events, ls \in LsModes, ss \in SsModes : DelayReturn(i, ls, ss)
    \/ \E d \in TickSteps : Tick(d)

SpecGate == Init /\ [][NextGate]_vars

----------------------------------------------------------------------------
(* Properties *)

Started(j) == inv[j].pc # "none"
Finished(j) == inv[j].pc = "done"

(* saveReviewWithRetry was called for invocation j and has answered *)
PersistAnswered(j) == inv[j].result # "none"

(* Every invocation arrived after all earlier ones had run to their end *)
OneAtATime ==
    \A j \in Events : Started(j) => inv[j].prior = 1..(j - 1)

AbsDiff(a, b) == IF a >= b THEN a - b ELSE b - a

(* C1: the collection under the main localStorage key never holds more    *)
(* than maxReviews (100) records, whatever the remote endpoint answers.   *)
C1_MainKeyWithinCapacity ==
    ParsesToArray(ls_main) => Len(ls_main.arr) <= maxReviews

(* C2: the collection under the main localStorage key holds no two        *)
(* records with case-insensitively equal names, similar contents and      *)
(* timestamps less than 24 hours apart.                                   *)
C2_NoDuplicatePairStored ==
    ParsesToArray(ls_main) =>
        \A x, y \in 1..Len(ls_main.arr) :
            x < y =>
                ~ ( /\ toLowerCase(ls_main.arr[x].name) = toLowerCase(ls_main.arr[y].name)
                    /\ similarContent(ls_main.arr[x].content, ls_main.arr[y].content)
                    /\ AbsDiff(ls_main.arr[x].timestamp, ls_main.arr[y].timestamp) < timeWindow )

StoredSomewhere(review) ==
    \/ \E value \in {ls_main, ls_backup, ss_main, ss_temp, ss_fallback,
                     globalReviews, memoryReviews, fallbackReviews} : InTier(review, value)
    \/ \E k \in 1..Len(remote) : remote[k] = review

(* C3: once a record was persisted with success, a later persist of a     *)
(* record with the same name and content, stamped less than 24 hours      *)
(* after it, answers false and stores nothing; a later persist stamped    *)
(* 24 hours or more after it, or under another name, is not turned down   *)
(* as a duplicate.                                                        *)
C3_RepeatWithinWindowRejected ==
    \A j \in Events :
        PersistAnswered(j) =>
            /\ \A i \in inv[j].prior :
                  ( /\ inv[i].result = "true"
                    /\ inv[i].review.name = inv[j].review.name
                    /\ inv[i].review.content = inv[j].review.content
                    /\ inv[j].review.timestamp - inv[i].review.timestamp < timeWindow )
                  => (inv[j].result = "false" /\ ~StoredSomewhere(inv[j].review))
            /\ ( /\ OneAtATime
                 /\ \A i \in inv[j].prior :
                       inv[i].result = "true" =>
                          \/ inv[j].review.timestamp - inv[i].review.timestamp >= timeWindow
                          \/ toLowerCase(inv[i].review.name) # toLowerCase(inv[j].review.name) )
               => ~(inv[j].result = "false" /\ inv[j].stage = "duplicate")

(* C4: when saveReviewWithRetry answered true, the getStoredReviews call  *)
(* the same handler makes next returns a sequence that starts with the    *)
(* record just persisted.                                                 *)
C4_ReadYourWrite ==
    \A j \in Events :
        inv[j].result = "true" =>
            /\ inv[j].readBack # <<>>
            /\ inv[j].readBack[1] = inv[j].review

(* C5: a submit event arriving less than rateLimit (60000) ms after an    *)
(* earlier event whose review was saved is turned down by the rate        *)
(* limiter, also when it arrives while the earlier one is still awaiting  *)
(* its persist; and the limiter turns an event down only if less than     *)
(* rateLimit ms passed since the recorded last submission.                *)
C5_SecondWithinMinuteRejected ==
    /\ \A i, j \in Events :
          ( /\ i < j
            /\ Started(j)
            /\ inv[i].outcome = "saved"
            /\ inv[j].arrived - inv[i].arrived < rateLimit )
          => inv[j].outcome = "ratelimited"
    /\ \A j \in Events :
          inv[j].outcome = "ratelimited" =>
              (ls_last.set /\ inv[j].arrived - ls_last.val < rateLimit)

(* C6: validateReview accepts exactly the candidates with a name holding  *)
(* a non-blank character, a content holding a non-blank character, at     *)
(* least 10 characters from the first to the last non-blank character of  *)
(* the content, and a rating in 1..5; a rejection shows one message, that *)
(* of the first rule failing in the order name, content, length, rating.  *)
NonBlankPositions(str) == {k \in 1..Len(str) : ~IsSpace(str[k])}

TrimmedLength(str) ==
    LET at == NonBlankPositions(str)
    IN  IF at = {} THEN 0
        ELSE (CHOOSE hi \in at : \A k \in at : k <= hi)
             - (CHOOSE lo \in at : \A k \in at : lo <= k) + 1

ExpectedMessages(c) ==
    IF NonBlankPositions(c.name) = {} THEN <<MsgName>>
    ELSE IF NonBlankPositions(c.content) = {} THEN <<MsgContent>>
    ELSE IF TrimmedLength(c.content) < 10 THEN <<MsgTooShort>>
    ELSE IF c.rating \notin 1..5 THEN <<MsgRating>>
    ELSE <<>>

C6_FirstFailingRuleReported ==
    verdict.done =>
        /\ verdict.ok = (ExpectedMessages(cand) = <<>>)
        /\ verdict.msgs = ExpectedMessages(cand)

C6_Witness ==
    /\ verdict.done
    /\ NonBlankPositions(cand.name) # {}
    /\ TrimmedLength(cand.content) \in 1..9
    /\ cand.rating = 6
    /\ ~verdict.ok
    /\ verdict.msgs = <<MsgTooShort>>

(* C7: saveReviewWithRetry answers false only for a record the            *)
(* deduplicator turned down, whatever the storage tiers do.               *)
C7_FailureOnlyForDuplicate ==
    \A j \in Events :
        inv[j].result = "false" => inv[j].stage = "duplicate"

(* C8: after more than maxReviews (100) records were persisted one at a   *)
(* time, the main localStorage key holds exactly the maxReviews most      *)
(* recently persisted ones, most recent first.  (Checked from a browser   *)
(* that already holds maxReviews records.)                                *)
RECURSIVE PersistedHere(_)
PersistedHere(j) ==
    IF j = 0 THEN <<>>
    ELSE (IF inv[j].result = "true" THEN <<inv[j].review>> ELSE <<>>) \o PersistedHere(j - 1)

C8_KeepsHundredMostRecent ==
    ( /\ OneAtATime
      /\ \A j \in Events : Started(j) => Finished(j)
      /\ PersistedHere(nEvents) # <<>> )
    => ls_main = JSONstringify(
                    slice(PersistedHere(nEvents) \o StoredEarlier(maxReviews), 0, maxReviews))

C10_ReadReturnsRemote ==
    (lastRead.done /\ useCloudStorage /\ lastRead.remote # <<>>) =>
        lastRead.reviews = sortByTimestampDesc(lastRead.remote)

(* C11: isDuplicate answers true exactly when some existing record is     *)
(* stamped less than 24 hours before or after the candidate, carries the  *)
(* candidate's name up to letter case, and has similar content; a record  *)
(* stamped 24 hours or more after the candidate never matches.            *)
MatchesWithinWindow(candidate, existing) ==
    /\ AbsDiff(candidate.timestamp, existing.timestamp) < timeWindow
    /\ toLowerCase(existing.name) = toLowerCase(candidate.name)
    /\ similarContent(existing.content, candidate.content)

C11_DuplicateWithinWindowEitherWay ==
    verdict.done =>
        verdict.ok = (\E k \in 1..Len(existingArg) : MatchesWithinWindow(cand, existingArg[k]))

(* C12: a record held under the main localStorage key stays there through *)
(* every step, except a step that leaves the key filled to maxReviews     *)
(* (capacity eviction) and a persist step during which localStorage       *)
(* raised QuotaExceededError (quota eviction).  clearAllReviews, the      *)
(* explicit clear-all, is a console command and not among the steps.      *)
CapacityEvictionStep ==
    ParsesToArray(ls_main') /\ Len(ls_main'.arr) >= maxReviews

QuotaEvictionStep ==
    \E i \in Events, ls \in {"quota", "full"}, ss \in SsModes :
        \/ DelayReturn(i, ls, ss)
        \/ \E net \in {"ok", "fail", "throw"} : FetchReturn(i, net, ls, ss)

KeptUnderMainKey(review) ==
    ParsesToArray(ls_main') /\ \E k \in 1..Len(ls_main'.arr) : ls_main'.arr[k] = review

C12_RemovedOnlyByEviction ==
    [][ \A k \in 1..Len(ls_main.arr) :
            \/ KeptUnderMainKey(ls_main.arr[k])
            \/ CapacityEvictionStep
            \/ QuotaEvictionStep ]_vars

(* C13: every handleSubmission invocation that ends rate limited, with a  *)
(* validation failure, with a duplicate rejection, with a storage failure *)
(* or with success has called showMessage exactly once.                   *)
C13_OneNotificationPerOutcome ==
    \A j \in Events :
        (Finished(j) /\ inv[j].outcome \in {"ratelimited", "invalid", "failed", "saved"})
            => Len(inv[j].msgs) = 1

(* C14: when the persist turned a record down as a duplicate, the last    *)
(* message handleSubmission showed (the one left visible) is the          *)
(* duplicate message; after a validation failure it is the message of     *)
(* the rule that failed.                                                  *)
LastMessage(j) == inv[j].msgs[Len(inv[j].msgs)]

C14_SpecificMessageLeftVisible ==
    \A j \in Events :
        Finished(j) =>
            /\ (inv[j].result = "false" /\ inv[j].stage = "duplicate")
                  => (inv[j].msgs # <<>> /\ LastMessage(j) = MsgDuplicate)
            /\ inv[j].outcome = "invalid"
                  => (inv[j].msgs # <<>> /\ <<LastMessage(j)>> = ExpectedMessages(inv[j].review))

(* C15: the sequence getStoredReviews returns is ordered by timestamp,    *)
(* most recent first, whichever tier supplied the records.                *)
C15_ReadSortedDescending ==
    lastRead.done =>
        \A x, y \in 1..Len(lastRead.reviews) :
            x < y => lastRead.reviews[x].timestamp >= lastRead.reviews[y].timestamp

C15_Witness ==
    /\ lastRead.done
    /\ globalReviews.kind = "undefined"
    /\ ls_main = JSONstringify(<<ReviewA, ReviewB>>)
    /\ lastRead.mainKind = "json"
    /\ lastRead.reviews = <<ReviewB, ReviewA>>

(* C16: the grid never shows more than maxDisplayReviews (20) records;    *)
(* it shows the first 20 of the sequence getStoredReviews returned, which *)
(* are the most recent ones, most recent first.                           *)
C16_GridShowsTwentyMostRecent ==
    lastRead.done =>
        /\ Len(reviewsGrid) <= maxDisplayReviews
        /\ Len(reviewsGrid) = IF Len(lastRead.reviews) < maxDisplayReviews
                              THEN Len(lastRead.reviews) ELSE maxDisplayReviews
        /\ \A x \in 1..Len(reviewsGrid) :
              /\ reviewsGrid[x] = lastRead.reviews[x]
              /\ \A y \in (x + 1)..Len(lastRead.reviews) :
                    reviewsGrid[x].timestamp >= lastRead.reviews[y].timestamp

C16_Witness ==
    /\ lastRead.done
    /\ ls_main = JSONstringify(Reverse(StoredEarlier(MaxStored)))
    /\ Len(lastRead.reviews) = MaxStored
    /\ Len(reviewsGrid) = maxDisplayReviews
    /\ reviewsGrid[1] = StoredEarlier(MaxStored)[1]
    /\ reviewsGrid[maxDisplayReviews] = StoredEarlier(MaxStored)[maxDisplayReviews]

(* C17: the document exportReviews produces is the JSON text of the       *)
(* collection getStoredReviews yields.                                    *)
C17_ExportIsStoredCollection ==
    (lastRead.done /\ dataStr # Null) => dataStr = JSONstringify(lastRead.reviews)

(* C18: when the PUT of a persist that overlaps no other persist          *)
(* succeeds, the remote collection becomes the new record followed by the *)
(* collection the remote endpoint held, cut to maxReviews; so a record    *)
(* another device persisted before stays in the remote collection.        *)
PersistsAlone(i) ==
    /\ \A k \in Events \ {i} : inv[k].pc \in {"none", "done"}
    /\ inv[i].prior = {k \in Events : k # i /\ inv[k].pc = "done"}

C18_PutIsNewRecordThenRemote ==
    [][ \A i \in Events, ls \in LsModes, ss \in SsModes :
            (PersistsAlone(i) /\ FetchReturn(i, "ok", ls, ss))
                => remote' = slice(<<inv[i].review>> \o remote, 0, maxReviews) ]_vars

(* C19: when the PUT is rejected or answered with a non-success status,   *)
(* the persist does not answer from the remote stage: the step that       *)
(* takes the answer leaves the invocation in the local-write stage or     *)
(* ends it with that stage's answer.                                      *)
C19_RemoteFailureFallsThrough ==
    [][ \A i \in Events, net \in {"fail", "throw"}, ls \in LsModes, ss \in SsModes :
            FetchReturn(i, net, ls, ss) => inv'[i].stage # "cloud" ]_vars

(* C20: in a step where the duplicate check of a local write attempt      *)
(* matches (the duplicate message is shown), the persist ends with the    *)
(* answer false, without waiting for a retry, and no storage tier (main   *)
(* key, backup key, session items, in-page variables) is modified.        *)
DuplicateMatchedFor(i) ==
    \E k \in (Len(inv[i].msgs) + 1)..Len(inv'[i].msgs) : inv'[i].msgs[k] = MsgDuplicate

Tiers ==
    <<ls_main, ls_backup, ss_main, ss_temp, ss_fallback,
      globalReviews, memoryReviews, fallbackReviews>>

C20_DuplicateMatchAbortsPersist ==
    [][ \A i \in Events :
            DuplicateMatchedFor(i) =>
                /\ inv'[i].pc = "done"
                /\ inv'[i].result = "false"
                /\ inv'[i].stage = "duplicate"
                /\ Tiers' = Tiers ]_vars

(* C21: in the step where a local write recovers from a quota error, the  *)
(* main key is left holding the new record followed by the               *)
(* maxReviews / 3 (33) most recent of the records it held before.         *)
RecoversFromQuota(i) ==
    inv[i].stage # "quota" /\ inv'[i].stage = "quota" /\ inv'[i].result = "true"

C21_QuotaRecoveryKeepsRecentThird ==
    [][ \A i \in Events :
            RecoversFromQuota(i) =>
                ls_main' = JSONstringify(
                    <<inv[i].review>>
                    \o slice(sortByTimestampDesc(ls_main.arr), 0, maxReviews \div 3)) ]_vars

(* C22: a step that writes a session-tier collection (the _temp item of  *)
(* saveToTemporaryStorage, the _fallback item of saveToFallbackStorage)   *)
(* leaves it holding the new record followed by every record it held      *)
(* before; and a record goes to an in-memory list only in a step where    *)
(* sessionStorage is undefined or raises.                                 *)
PrependedTo(before, after) ==
    \E i \in Events : after = JSONstringify(<<inv[i].review>> \o before.arr)

SessionUnavailableStep ==
    \/ ~ssDefined
    \/ \E i \in Events, ls \in LsModes :
          \/ DelayReturn(i, ls, "throws")
          \/ \E net \in {"ok", "fail", "throw"} : FetchReturn(i, net, ls, "throws")

C22_SessionWritePrependOnly ==
    [][ /\ ss_temp' # ss_temp => PrependedTo(ss_temp, ss_temp')
        /\ ss_fallback' # ss_fallback => PrependedTo(ss_fallback, ss_fallback')
        /\ (memoryReviews' # memoryReviews \/ fallbackReviews' # fallbackReviews)
              => SessionUnavailableStep ]_vars

(* C23: saveToLocalStorage terminates.  An invocation waits in delay()    *)
(* only before its second and its third pass; the third pass never waits  *)
(* again but ends the invocation (through the fallback when it fails);    *)
(* and every invocation waiting in delay() runs to its end.               *)
C23_LocalWriteTerminates ==
    /\ [](\A i \in Events : inv[i].pc = "delay" => inv[i].attempt \in 2..3)
    /\ [][ \A i \in Events, ls \in LsModes, ss \in SsModes :
              (inv[i].attempt = 3 /\ DelayReturn(i, ls, ss)) => inv'[i].pc = "done" ]_vars
    /\ \A i \in Events : (inv[i].pc = "delay") ~> (inv[i].pc = "done")

C23_Witness ==
    \E i \in Events :
        /\ inv[i].pc = "done"
        /\ inv[i].attempt = 3
        /\ inv[i].result = "true"
        /\ InTier(inv[i].review, ss_fallback)

(* C24: whenever no persist is in progress, the value under the backup key *)
(* equals the value under the main key                                     *)
C24_BackupEqualsMainAtRest ==
    (\A i \in Events : inv[i].pc \in {"none", "done"}) => ls_backup = ls_main

(* C25: at no time are two persists (saveReviewWithRetry) of the page in  *)
(* flight: a submit event delivered while an earlier handleSubmission is  *)
(* suspended at an await starts no second persist.                        *)
InFlight(i) == inv[i].pc \in {"fetch", "delay"}

C25_OnePersistInFlight ==
    \A i, j \in Events : (InFlight(i) /\ InFlight(j)) => i = j

(* C26: when two persists overlapped, each suspended at its PUT while the *)
(* other ran, and both answered true, then once both have completed both  *)
(* records are stored (here: in any tier at all).                         *)
OverlappedAtPut(i, j) ==
    /\ i < j
    /\ i \notin inv[j].prior
    /\ inv[i].stage = "cloud"
    /\ inv[j].stage = "cloud"

C26_OverlappingPersistsKeepBoth ==
    \A i, j \in Events :
        ( /\ OverlappedAtPut(i, j)
          /\ Finished(i) /\ inv[i].result = "true"
          /\ Finished(j) /\ inv[j].result = "true" )
        => (StoredSomewhere(inv[i].review) /\ StoredSomewhere(inv[j].review))

(* C27: when another tab has changed the main key and this tab has got    *)
(* the storage event (its localStorage working), the collection this tab  *)
(* reads and displays is the updated collection under the main key; and   *)
(* no later syncStorages of this tab takes the other tab's record out of  *)
(* the main key again.                                                    *)
C27_CrossTabWriteShownAndKept ==
    [][ /\ OtherTabWrites("ok") =>
              /\ lastRead'.reviews = sortByTimestampDesc(ls_main'.arr)
              /\ reviewsGrid' = slice(sortByTimestampDesc(ls_main'.arr), 0, maxDisplayReviews)
        /\ \A ls \in LsModes :
              (SyncStorages(ls) /\ InTier(ForeignReview(clock), ls_main))
                  => InTier(ForeignReview(clock), ls_main') ]_vars

(* C28: clearAllReviews clears all reviews: the getStoredReviews call it  *)
(* makes returns the empty sequence, the last-submission time is gone so  *)
(* that the rate limiter admits the next submission, and, nothing being   *)
(* submitted afterwards, no later syncStorages puts a record under the    *)
(* main key.                                                              *)
C28_ClearAllClears ==
    [][ \A ls \in LsModes :
          /\ ClearAllReviews(ls) =>
                /\ lastRead'.reviews = <<>>
                /\ ~ls_last'.set
          /\ (SyncStorages(ls) /\ lastRead.done) =>
                \A k \in 1..Len(ls_main'.arr) : InTier(ls_main'.arr[k], ls_main) ]_vars

(* C29: a submission turned down by the rate limiter or by validateReview *)
(* leaves the review collections of every tier (remote, main and backup   *)
(* key, the three session items, the three in-page variables) and the     *)
(* last-submission time as they were.                                     *)
TurnedDownIn(i) ==
    /\ inv[i].pc = "none"
    /\ inv'[i].outcome \in {"ratelimited", "invalid"}

C29_RejectedSubmissionStoresNothing ==
    [][ (\E i \in Events : TurnedDownIn(i)) =>
            UNCHANGED <<remote, ls_main, ls_backup, ss_main, ss_temp, ss_fallback,
                        globalReviews, memoryReviews, fallbackReviews, ls_last>> ]_vars

C29_Witness ==
    \E i, j \in Events :
        /\ inv[i].outcome = "saved"
        /\ InTier(inv[i].review, ls_main)
        /\ inv[j].outcome = "ratelimited"
        /\ inv[j].msgs = <<MsgRateLimit>>

(* C30: the last-submission time changes only in a step in which a        *)
(* persist answered true; a step that ends a submission as rate-limited,  *)
(* invalid, or with saveReviewWithRetry answering false (a duplicate, or  *)
(* no store taking the record) leaves it as it was.                       *)
EndsIn(i) == inv[i].pc # "done" /\ inv'[i].pc = "done"

C30_StampOnlyOnSuccess ==
    [][ /\ ls_last' # ls_last =>
              \E i \in Events : EndsIn(i) /\ inv'[i].result = "true"
        /\ \A i \in Events :
              ( /\ EndsIn(i)
                /\ \/ inv'[i].outcome \in {"ratelimited", "invalid"}
                   \/ inv'[i].result = "false" )
              => ls_last' = ls_last ]_vars

C30_Witness ==
    \E i, j \in Events :
        /\ inv[i].outcome = "saved"
        /\ ls_last = [set |-> TRUE, val |-> inv[i].arrived]
        /\ inv[j].pc = "done"
        /\ inv[j].result = "false"
        /\ inv[j].stage = "duplicate"

(* C31: whenever no persist is in progress and window.medridatoursReviews *)
(* is set, every record the main key holds is in it, so that a read       *)
(* served from the variable misses no record a completed persist wrote    *)
(* under the main key.                                                    *)
C31_GlobalHoldsMainAtRest ==
    ( /\ \A i \in Events : inv[i].pc \in {"none", "done"}
      /\ globalReviews.kind = "array"
      /\ ParsesToArray(ls_main) )
    => \A k \in 1..Len(ls_main.arr) : InTier(ls_main.arr[k], globalReviews)

====
